---- MODULE Spec2Model ----
(***************************************************************************)
(* Model of convert.py, the board format conversion tool.                  *)
(*                                                                         *)
(* Text is modelled character by character: a string is a sequence of      *)
(* one-character strings, an input file is the sequence of lines that      *)
(* "for line in file" yields (each ending in its newline), the output file *)
(* is the sequence of characters written to it.  Exceptions are modelled   *)
(* by results carrying an "ok" flag.                                       *)
(***************************************************************************)
EXTENDS Integers, Sequences, FiniteSets, TLC

\* ------------------------------------------------------------------ bounds

\* Longest input file, in lines.
MaxLines == 4

\* --------------------------------------------------------- text primitives

NL == "\n"

\* The characters str.strip() removes (the ones that occur in the model).
Whitespace == {" ", "\t", "\n"}

Digits == <<"0", "1", "2", "3", "4", "5", "6", "7", "8", "9">>

DigitSet == {Digits[i] : i \in 1..10}

DigitVal(c) == (CHOOSE i \in 1..10 : Digits[i] = c) - 1

RECURSIVE LStrip(_)
LStrip(s) ==
    IF s # <<>> /\ Head(s) \in Whitespace THEN LStrip(Tail(s)) ELSE s

RECURSIVE RStrip(_)
RStrip(s) ==
    IF s # <<>> /\ s[Len(s)] \in Whitespace
    THEN RStrip(SubSeq(s, 1, Len(s) - 1))
    ELSE s

\* str.strip(): leading and trailing whitespace removed.
Strip(s) == RStrip(LStrip(s))

\* Index of the first occurrence of character c in s, 0 when there is none.
Find(s, c) ==
    IF \E i \in 1..Len(s) : s[i] = c
    THEN CHOOSE i \in 1..Len(s) : s[i] = c /\ \A j \in 1..(i - 1) : s[j] # c
    ELSE 0

\* str.split(c) for a one-character delimiter: always at least one part.
RECURSIVE Split(_, _)
Split(s, c) ==
    LET i == Find(s, c)
    IN  IF i = 0
        THEN <<s>>
        ELSE <<SubSeq(s, 1, i - 1)>> \o Split(SubSeq(s, i + 1, Len(s)), c)

\* d.join(parts), d a string.
RECURSIVE Join(_, _)
Join(parts, d) ==
    IF parts = <<>> THEN <<>>
    ELSE IF Len(parts) = 1 THEN parts[1]
    ELSE parts[1] \o d \o Join(Tail(parts), d)

RECURSIVE DigitsVal(_, _)
DigitsVal(s, acc) ==
    IF s = <<>> THEN acc ELSE DigitsVal(Tail(s), 10 * acc + DigitVal(Head(s)))

\* int(s): surrounding whitespace is dropped, one optional sign, then one or
\* more decimal digits; anything else raises ValueError (ok = FALSE).
IntOf(s) ==
    LET t    == Strip(s)
        neg  == t # <<>> /\ Head(t) = "-"
        body == IF t # <<>> /\ Head(t) \in {"-", "+"} THEN Tail(t) ELSE t
        good == body # <<>> /\ \A i \in 1..Len(body) : body[i] \in DigitSet
    IN  IF good
        THEN [ok |-> TRUE,
              val |-> IF neg THEN 0 - DigitsVal(body, 0) ELSE DigitsVal(body, 0)]
        ELSE [ok |-> FALSE, val |-> 0]

RECURSIVE NatToStr(_)
NatToStr(v) ==
    IF v < 10 THEN <<Digits[v + 1]>>
    ELSE NatToStr(v \div 10) \o <<Digits[(v % 10) + 1]>>

\* str(v) / f"{v}" for an int.
IntToStr(v) == IF v < 0 THEN <<"-">> \o NatToStr(0 - v) ELSE NatToStr(v)

\* list.sort(): ascending insertion of one value into a sorted list.
RECURSIVE InsertAsc(_, _)
InsertAsc(x, s) ==
    IF s = <<>> THEN <<x>>
    ELSE IF x < Head(s) THEN <<x>> \o s
    ELSE <<Head(s)>> \o InsertAsc(x, Tail(s))

RECURSIVE SortAsc(_)
SortAsc(s) == IF s = <<>> THEN <<>> ELSE InsertAsc(Head(s), SortAsc(Tail(s)))

\* list.sort(reverse=True): descending insertion.
RECURSIVE InsertDesc(_, _)
InsertDesc(x, s) ==
    IF s = <<>> THEN <<x>>
    ELSE IF x > Head(s) THEN <<x>> \o s
    ELSE <<Head(s)>> \o InsertDesc(x, Tail(s))

RECURSIVE SortDesc(_)
SortDesc(s) == IF s = <<>> THEN <<>> ELSE InsertDesc(Head(s), SortDesc(Tail(s)))

RECURSIVE SumSeq(_)
SumSeq(s) == IF s = <<>> THEN 0 ELSE Head(s) + SumSeq(Tail(s))

\* max() of a non-empty sequence of integers.
MaxOf(s) == CHOOSE m \in {s[i] : i \in 1..Len(s)} : \A i \in 1..Len(s) : s[i] <= m

\* ------------------------------------------------------------------ Board

\* DataType
DataType_OLD == 0
DataType_NEW == 1

DEFAULT_SEPARATOR == <<"-", "-", "-">>

\* An argument that was not given on the command line.
None == <<"None">>

\* Board.__init__
BoardUnsortedDesc(n, k, chips, goal) ==
    [n |-> n, k |-> k, goal |-> goal,
     chips_asc  |-> [i \in 1..Len(chips) |-> SortAsc(chips[i])],
     chips_desc |-> chips]

Board(n, k, chips, goal) ==
    [n |-> n, k |-> k, goal |-> goal,
     chips_asc  |-> [i \in 1..Len(chips) |-> SortAsc(chips[i])],
     chips_desc |-> [i \in 1..Len(chips) |-> SortDesc(chips[i])]]

NoBoard == Board(0, 0, <<>>, 0)

\* Board.calc_max_row: max() of an empty generator raises ValueError.
calc_max_row_first_asc(b) ==
    IF Len(b.chips_asc) = 0
    THEN [ok |-> FALSE, val |-> 0]
    ELSE [ok |-> TRUE,
          val |-> MaxOf([i \in 1..Len(b.chips_asc) |-> b.chips_asc[i][1]])]

calc_max_row(b) ==
    IF Len(b.chips_desc) = 0
    THEN [ok |-> FALSE, val |-> 0]
    ELSE [ok |-> TRUE,
          val |-> MaxOf([i \in 1..Len(b.chips_desc) |-> b.chips_desc[i][1]])]

\* Board.calc_num_chips
calc_num_chips_positive(b) ==
    SumSeq([i \in 1..Len(b.chips_asc) |->
              Cardinality({j \in 1..Len(b.chips_asc[i]) : b.chips_asc[i][j] > 0})])

calc_num_chips(b) ==
    SumSeq([i \in 1..Len(b.chips_asc) |->
              Cardinality({j \in 1..Len(b.chips_asc[i]) : b.chips_asc[i][j] >= 0})])

\* The integers of a sequence of tokens: [ok, vals]; ok is FALSE when int()
\* raises on one of them.
IntsOf(tokens) ==
    [ok   |-> \A i \in 1..Len(tokens) : IntOf(tokens[i]).ok,
     vals |-> [i \in 1..Len(tokens) |->
                 IF IntOf(tokens[i]).ok THEN IntOf(tokens[i]).val ELSE 0]]

\* One column line of the old format: int(r.split(":")[0]) for each token.
OldColumn(line) ==
    LET toks == Split(line, " ")
    IN  IntsOf([i \in 1..Len(toks) |-> Split(toks[i], ":")[1]])

\* One column line of the new format: int(r) for each token.
NewColumn(line) == IntsOf(Split(line, " "))

\* The body lines[1:] parsed with one of the two column parsers.
Columns(datatype, lines) ==
    LET col(i) == IF datatype = DataType_OLD
                  THEN OldColumn(lines[i + 1])
                  ELSE NewColumn(lines[i + 1])
    IN  [ok   |-> \A i \in 1..(Len(lines) - 1) : col(i).ok,
         vals |-> [i \in 1..(Len(lines) - 1) |-> col(i).vals]]

\* The header of the old format: exactly five integers.
OldHeader(line) ==
    LET h == IntsOf(Split(line, ","))
    IN  [ok |-> h.ok /\ Len(h.vals) = 5, vals |-> h.vals]

\* The header of the new format: three key=value pairs, the value an integer;
\* x.split("=")[1] raises IndexError when the pair holds no "=".
NewHeader(line) ==
    LET pairs == Split(line, ",")
        has   == \A i \in 1..Len(pairs) : Len(Split(pairs[i], "=")) >= 2
        h     == IntsOf([i \in 1..Len(pairs) |->
                           IF Len(Split(pairs[i], "=")) >= 2
                           THEN Split(pairs[i], "=")[2] ELSE <<>>])
    IN  [ok |-> has /\ h.ok /\ Len(h.vals) = 3, vals |-> h.vals]

\* Board.fromString: [ok, board]; ok is FALSE when the code raises
\* (lines[0] of an empty record, a header of the wrong shape, a token that is
\* no integer).
fromString(datatype, lines) ==
    IF Len(lines) = 0 THEN [ok |-> FALSE, board |-> NoBoard]
    ELSE
      LET head == IF datatype = DataType_OLD
                  THEN OldHeader(lines[1]) ELSE NewHeader(lines[1])
          cols == Columns(datatype, lines)
      IN  IF head.ok /\ cols.ok
          THEN [ok |-> TRUE,
                board |-> Board(head.vals[1], head.vals[2], cols.vals,
                                IF datatype = DataType_OLD THEN head.vals[3] ELSE 0)]
          ELSE [ok |-> FALSE, board |-> NoBoard]

\* " ".join(f"{r}:0" for r in column)
OldColumnText(column) ==
    Join([j \in 1..Len(column) |-> IntToStr(column[j]) \o <<":", "0">>], <<" ">>)

\* " ".join(map(str, column))
NewColumnText(column) ==
    Join([j \in 1..Len(column) |-> IntToStr(column[j])], <<" ">>)

\* Board.toString: [ok, text]; ok is FALSE when calc_max_row raises.
toString(b, datatype) ==
    IF datatype = DataType_OLD
    THEN
      IF ~calc_max_row(b).ok THEN [ok |-> FALSE, text |-> <<>>]
      ELSE
        LET head == Join(<<IntToStr(b.n), IntToStr(b.k), IntToStr(b.goal),
                           IntToStr(calc_max_row(b).val),
                           IntToStr(calc_num_chips(b))>>, <<",">>)
            body == Join([i \in 1..Len(b.chips_asc) |->
                            OldColumnText(b.chips_asc[i])], <<NL>>)
        IN  [ok |-> TRUE, text |-> head \o <<NL>> \o body]
    ELSE
      LET head == <<"n", "=">> \o IntToStr(b.n)
                  \o <<",", "k", "=">> \o IntToStr(b.k)
                  \o <<",", "n", "_", "c", "h", "i", "p", "s", "=">>
                  \o IntToStr(calc_num_chips(b))
          body == Join([i \in 1..Len(b.chips_desc) |->
                          NewColumnText(b.chips_desc[i])], <<NL>>)
      IN  [ok |-> TRUE, text |-> head \o <<NL>> \o body]

\* ------------------------------------------------------- inputs of a run

\* An old-format header n,k,goal,max_row,num_chips whose derived fields are stale.
OldHeaderA ==
    <<"2", ",", "1", ",", "3", ",", "9", ",", "9", "\n">>

\* The same header with other values in the derived fields.
OldHeaderB ==
    <<"2", ",", "1", ",", "3", ",", "0", ",", "0", "\n">>

\* A new-format header.
NewHeaderA ==
    <<"n", "=", "2", ",", "k", "=", "1", ",", "n", "_", "c", "h", "i", "p", "s", "=", "5", "\n">>

\* A column line both formats can read, neither ascending nor descending.
PlainColumn ==
    <<"0", " ", "1", "2", " ", "-", "1", "\n">>

\* A column that holds only the empty-slot sentinel.
NegColumn ==
    <<"-", "1", "\n">>

\* A column line of the old format with flags.
FlagColumn ==
    <<"2", ":", "1", " ", "0", ":", "0", "\n">>

\* The default separator line.
SepLine ==
    <<"-", "-", "-", "\n">>

\* The separator with leading whitespace.
PaddedSepLine ==
    <<" ", "-", "-", "-", "\n">>

LinePool ==
    {OldHeaderA,
     OldHeaderB,
     NewHeaderA,
     PlainColumn,
     NegColumn,
     FlagColumn,
     SepLine,
     PaddedSepLine}

\* The input files: every sequence of at most MaxLines lines of the pool.
InputFiles == UNION {[1..m -> LinePool] : m \in 0..MaxLines}

PaddedSep ==
    <<" ", "-", "-", "-">>

HashSep ==
    <<"#">>

\* The argument sets of the runs: what argparse returns for the command line.
ArgPool ==
    {[direction |-> "old-to-new", goal |-> None, isep |-> DEFAULT_SEPARATOR,
      osep |-> DEFAULT_SEPARATOR],
     [direction |-> "old-to-new", goal |-> <<"4">>, isep |-> PaddedSep,
      osep |-> HashSep],
     [direction |-> "new-to-old", goal |-> <<"7">>, isep |-> DEFAULT_SEPARATOR,
      osep |-> DEFAULT_SEPARATOR],
     [direction |-> "new-to-old", goal |-> <<"0", "7">>, isep |-> DEFAULT_SEPARATOR,
      osep |-> HashSep],
     [direction |-> "new-to-old", goal |-> <<"x">>, isep |-> DEFAULT_SEPARATOR,
      osep |-> DEFAULT_SEPARATOR],
     [direction |-> "new-to-old", goal |-> None, isep |-> DEFAULT_SEPARATOR,
      osep |-> DEFAULT_SEPARATOR],
     [direction |-> "new-to-old", goal |-> <<>>, isep |-> DEFAULT_SEPARATOR,
      osep |-> DEFAULT_SEPARATOR],
     [direction |-> "new2old", goal |-> <<"7">>, isep |-> DEFAULT_SEPARATOR,
      osep |-> DEFAULT_SEPARATOR]}

\* The output path before the run: no file, or a file with earlier content.
Missing == [exists |-> FALSE, content |-> <<>>]

Prior == [exists |-> TRUE, content |-> <<"o", "l", "d", "\n">>]

\* ------------------------------------------------------------------ state

VARIABLES
    pc,        \* where the run is: "start", "reading", "read_done", "writing",
               \* or ended: "done", "usage_error", "format_error", "write_error"
    args,      \* the parsed command line
    infile,    \* the lines of the input file
    idx,       \* the next line "for line in file" yields
    buffer,    \* file_to_boards: the lines since the last separator
    boards,    \* the list of Board objects
    cuts,      \* history: the indexes of the lines taken as separators
    records,   \* history: the buffers handed to Board.fromString
    outfile,   \* the file at the output path
    widx,      \* boards_to_file: the board the loop is at
    blocks     \* history: the strings board.toString returned to the writer

vars == <<pc, args, infile, idx, buffer, boards, cuts, records, outfile, widx, blocks>>

\* parse_args: the two checks after parser.parse_args().
ArgsValidNoGoalCheck(a) == a.direction \in {"old-to-new", "new-to-old"}

ArgsValid(a) ==
    /\ a.direction \in {"old-to-new", "new-to-old"}
    /\ ~(a.direction = "new-to-old" /\ (a.goal = None \/ a.goal = <<>>))

\* file_to_boards: datatype, in_separator.
SourceType(a) == IF a.direction = "old-to-new" THEN DataType_OLD ELSE DataType_NEW

in_separator(a) == IF a.isep = None THEN DEFAULT_SEPARATOR ELSE a.isep

\* boards_to_file: datatype, out_separator.
TargetType(a) == IF a.direction = "old-to-new" THEN DataType_NEW ELSE DataType_OLD

out_separator(a) == IF a.osep = None THEN DEFAULT_SEPARATOR ELSE a.osep

\* file_to_boards: "if line != in_separator" on the stripped line.
IsBoundary(line, a) == Strip(line) = in_separator(a)

\* file_to_boards: "if len(buffer) > 0" after the loop.
DropsTrailingRecord(buf) == FALSE

HasTrailingRecord(buf) == Len(buf) > 0

\* boards_to_file: "if datatype == DataType.OLD" before the goal is set.
InjectsGoalAlways(datatype) == TRUE

InjectsGoal(datatype) == datatype = DataType_OLD

\* boards_to_file: the three writes after the block.
TerminatorNoNewline(osep) == <<NL>> \o osep

Terminator(osep) == <<NL>> \o osep \o <<NL>>

Init ==
    /\ pc = "start"
    /\ args \in ArgPool
    /\ infile \in InputFiles
    /\ outfile \in {Missing, Prior}
    /\ idx = 1
    /\ buffer = <<>>
    /\ boards = <<>>
    /\ cuts = <<>>
    /\ records = <<>>
    /\ widx = 1
    /\ blocks = <<>>

\* __main__: args = parse_args(); parser.error() exits the process.
ParseArgs ==
    /\ pc = "start"
    /\ pc' = IF ArgsValid(args) THEN "reading" ELSE "usage_error"
    /\ UNCHANGED <<args, infile, idx, buffer, boards, cuts, records, outfile,
                   widx, blocks>>

\* file_to_boards: one turn of "for line in file".
ReadLine ==
    /\ pc = "reading"
    /\ idx <= Len(infile)
    /\ IF ~IsBoundary(infile[idx], args)
       THEN /\ buffer' = Append(buffer, Strip(infile[idx]))
            /\ idx' = idx + 1
            /\ UNCHANGED <<pc, boards, cuts, records>>
       ELSE /\ cuts' = Append(cuts, idx)
            /\ records' = Append(records, buffer)
            /\ IF fromString(SourceType(args), buffer).ok
               THEN /\ boards' = Append(boards, fromString(SourceType(args), buffer).board)
                    /\ buffer' = <<>>
                    /\ idx' = idx + 1
                    /\ UNCHANGED pc
               ELSE /\ pc' = "format_error"
                    /\ UNCHANGED <<boards, buffer, idx>>
    /\ UNCHANGED <<args, infile, outfile, widx, blocks>>

\* file_to_boards: the end of the loop, "Add the last board (if any)".
ReadEnd ==
    /\ pc = "reading"
    /\ idx = Len(infile) + 1
    /\ IF HasTrailingRecord(buffer)
       THEN /\ records' = Append(records, buffer)
            /\ IF fromString(SourceType(args), buffer).ok
               THEN /\ boards' = Append(boards, fromString(SourceType(args), buffer).board)
                    /\ pc' = "read_done"
               ELSE /\ pc' = "format_error"
                    /\ UNCHANGED boards
       ELSE /\ pc' = "read_done"
            /\ UNCHANGED <<boards, records>>
    /\ UNCHANGED <<args, infile, idx, buffer, cuts, outfile, widx, blocks>>

\* boards_to_file: open(out_filename, "w") creates or truncates the file.
OpenOut ==
    /\ pc = "read_done"
    /\ outfile' = [exists |-> TRUE, content |-> <<>>]
    /\ pc' = "writing"
    /\ UNCHANGED <<args, infile, idx, buffer, boards, cuts, records, widx, blocks>>

\* boards_to_file: one turn of "for board in boards".
WriteBoard ==
    /\ pc = "writing"
    /\ widx <= Len(boards)
    /\ LET inject == InjectsGoal(TargetType(args))
           g      == IntOf(args.goal)
           b      == IF inject /\ g.ok
                     THEN [boards[widx] EXCEPT !.goal = g.val]
                     ELSE boards[widx]
           s      == toString(b, TargetType(args))
       IN  IF inject /\ ~g.ok
           THEN /\ pc' = "write_error"
                /\ UNCHANGED <<boards, outfile, widx, blocks>>
           ELSE /\ boards' = [boards EXCEPT ![widx] = b]
                /\ IF s.ok
                   THEN /\ outfile' = [outfile EXCEPT !.content =
                                         @ \o s.text \o Terminator(out_separator(args))]
                        /\ blocks' = Append(blocks, s.text)
                        /\ widx' = widx + 1
                        /\ UNCHANGED pc
                   ELSE /\ pc' = "write_error"
                        /\ UNCHANGED <<outfile, widx, blocks>>
    /\ UNCHANGED <<args, infile, idx, buffer, cuts, records>>

\* boards_to_file: the loop is over and the "with" block closes the file.
CloseOut ==
    /\ pc = "writing"
    /\ widx = Len(boards) + 1
    /\ pc' = "done"
    /\ UNCHANGED <<args, infile, idx, buffer, boards, cuts, records, outfile,
                   widx, blocks>>

Next ==
    \/ ParseArgs
    \/ ReadLine
    \/ ReadEnd
    \/ OpenOut
    \/ WriteBoard
    \/ CloseOut

Spec == Init /\ [][Next]_vars

\* "for line in file" over a text: the lines, each with its newline, the last
\* one without when the text does not end in a newline.
FileLines(text) ==
    LET parts == Split(text, NL)
        n     == Len(parts)
    IN  [i \in 1..(IF parts[n] = <<>> THEN n - 1 ELSE n) |->
           IF i < n THEN parts[i] \o <<NL>> ELSE parts[i]]

\* file_to_boards as a function of the lines: the buffers it hands to
\* Board.fromString, in order.
RECURSIVE ReadRecords(_, _, _)
ReadRecords(lines, sep, buf) ==
    IF lines = <<>>
    THEN IF Len(buf) > 0 THEN <<buf>> ELSE <<>>
    ELSE IF Strip(Head(lines)) # sep
         THEN ReadRecords(Tail(lines), sep, Append(buf, Strip(Head(lines))))
         ELSE <<buf>> \o ReadRecords(Tail(lines), sep, <<>>)

\* ------------------------------------------------- helpers of the properties

Ended == {"done", "usage_error", "format_error", "write_error"}

Range(f) == {f[i] : i \in 1..Len(f)}

Reverse(s) == [i \in 1..Len(s) |-> s[Len(s) + 1 - i]]

\* A line without its trailing newline, and nothing else removed.
RemoveNewline(line) ==
    IF line # <<>> /\ line[Len(line)] = NL
    THEN SubSeq(line, 1, Len(line) - 1)
    ELSE line

\* All values of a list of columns, as a set, and the number of values >= 0.
ValuesOf(cols) == UNION {Range(cols[i]) : i \in 1..Len(cols)}

RECURSIVE CountNonNeg(_)
CountNonNeg(cols) ==
    IF cols = <<>> THEN 0
    ELSE Cardinality({j \in 1..Len(Head(cols)) : Head(cols)[j] >= 0})
         + CountNonNeg(Tail(cols))

\* How often v occurs in column c.
Occurs(c, v) == Cardinality({j \in 1..Len(c) : c[j] = v})

SameMultiset(c, d) ==
    /\ Len(c) = Len(d)
    /\ \A v \in Range(c) \cup Range(d) : Occurs(c, v) = Occurs(d, v)

\* The first line of a block of text.
HeaderOf(text) == Split(text, NL)[1]

\* The column values a raw record holds, read in the run's source format.
RecordColumns(rec) == Columns(SourceType(args), rec).vals

\* ---------------------------------------------------------------- C1
\* C1 (as claimed): a run is all-or-nothing: when it has ended, either the
\* output file was not touched, or every record of the input was converted
\* and written.
C1_AllOrNothing ==
    pc \in Ended =>
        \/ outfile \in {Missing, Prior}
        \/ /\ pc = "done"
           /\ Len(blocks) = Len(records)
           /\ Len(blocks) = Len(boards)

\* ---------------------------------------------------------------- C2
\* What parse_args accepts, and the input read and parsed to its end.
ArgsAcceptable ==
    /\ args.direction \in {"old-to-new", "new-to-old"}
    /\ args.direction = "new-to-old" => args.goal \notin {None, <<>>}

WholeInputParsed ==
    /\ idx = Len(infile) + 1
    /\ Len(boards) = Len(records)
    /\ \A i \in 1..Len(records) : fromString(SourceType(args), records[i]).ok
    /\ \A i \in 1..Len(infile) : i \in Range(cuts) \/ \E j \in 1..Len(records) :
           Strip(infile[i]) \in Range(records[j])

\* C2: the output file changes only once the arguments are valid and the
\* whole input has been read and parsed; a run that ends in a usage error or
\* a format error leaves the output path as it was before the run.
C2_OutputOpenedLast ==
    [][/\ outfile' # outfile =>
            ArgsAcceptable /\ WholeInputParsed /\ pc \in {"read_done", "writing"}
       /\ pc' \in {"start", "reading", "read_done", "usage_error", "format_error"} =>
            outfile' = outfile /\ outfile' \in {Missing, Prior}]_vars

\* A run that parsed one record, failed on the next, and left the earlier
\* output file in place.
C2_Witness ==
    /\ pc = "format_error"
    /\ Len(boards) >= 1
    /\ outfile = Prior

\* ---------------------------------------------------------------- C3
\* C3 (as claimed): a line the reader has passed was taken as a record
\* boundary exactly when the line without its trailing newline equals the
\* configured input separator.
C3_ExactSeparatorMatch ==
    \A i \in 1..Len(infile) :
        (i < idx \/ i \in Range(cuts)) =>
            (i \in Range(cuts) <=> RemoveNewline(infile[i]) = in_separator(args))

\* ---------------------------------------------------------------- C4
\* The separators around record j, as line indexes of the input.
CutBefore(j) == IF j = 1 THEN 0 ELSE cuts[j - 1]

CutAfter(j) == IF j <= Len(cuts) THEN cuts[j] ELSE Len(infile) + 1

LastCut == IF cuts = <<>> THEN 0 ELSE cuts[Len(cuts)]

RECURSIVE ExpectedContent(_)
ExpectedContent(m) ==
    IF m = 0 THEN <<>>
    ELSE ExpectedContent(m - 1)
         \o toString(boards[m], TargetType(args)).text
         \o <<NL>> \o out_separator(args) \o <<NL>>

\* C5: while and after writing, the output file is the serialized blocks of
\* the boards written so far, in input order, each followed by a newline, the
\* output separator and a newline; at the end there is one block and one
\* separator per record read, and the last line is the separator.
C5_BlockThenSeparator ==
    pc \in {"writing", "done"} =>
        /\ outfile.exists
        /\ outfile.content = ExpectedContent(widx - 1)
        /\ Len(blocks) = widx - 1
        /\ pc = "done" =>
              /\ Len(blocks) = Len(records)
              /\ Len(records) >= 1 =>
                    LET ls == Split(outfile.content, NL)
                    IN  /\ ls[Len(ls)] = <<>>
                        /\ ls[Len(ls) - 1] = out_separator(args)

\* A finished run that wrote two records.
C5_Witness ==
    /\ pc = "done"
    /\ Len(records) = 2
    /\ Len(blocks) = 2

\* ---------------------------------------------------------------- C6
\* C6: n, k and the columns of every board stay what fromString built from
\* its record; converting old-to-new a board's goal stays the goal of its old
\* header, whatever --goal holds; converting new-to-old every board that has
\* been serialized holds the integer of --goal, and so does its header.
C6_GoalOnlyForOld ==
    \A i \in 1..Len(boards) :
        LET built == fromString(SourceType(args), records[i]).board
        IN  /\ boards[i].n = built.n
            /\ boards[i].k = built.k
            /\ boards[i].chips_asc = built.chips_asc
            /\ boards[i].chips_desc = built.chips_desc
            /\ args.direction = "old-to-new" =>
                  boards[i].goal = IntOf(Split(records[i][1], ",")[3]).val
            /\ (args.direction = "new-to-old" /\ i < widx) =>
                  /\ IntOf(args.goal).ok
                  /\ boards[i].goal = IntOf(args.goal).val
                  /\ IntOf(Split(HeaderOf(blocks[i]), ",")[3]).val = IntOf(args.goal).val

\* An old-to-new run given a --goal that differs from the header's goal has
\* written the board.
C6_Witness ==
    /\ pc = "done"
    /\ args.direction = "old-to-new"
    /\ args.goal # None
    /\ Len(blocks) >= 1
    /\ boards[1].goal # IntOf(args.goal).val

\* ---------------------------------------------------------------- C7
\* The chip count the header of written block i carries.
WrittenChipCount(i) ==
    IF TargetType(args) = DataType_OLD
    THEN IntOf(Split(HeaderOf(blocks[i]), ",")[5]).val
    ELSE IntOf(Split(Split(HeaderOf(blocks[i]), ",")[3], "=")[2]).val

\* The record with a digit appended to each derived field of its header.
WithOtherDerivedFields(rec) ==
    LET f == Split(rec[1], ",")
        h == IF SourceType(args) = DataType_OLD
             THEN Join(<<f[1], f[2], f[3], f[4] \o <<"1">>, f[5] \o <<"1">>>>, <<",">>)
             ELSE Join(<<f[1], f[2], f[3] \o <<"1">>>>, <<",">>)
    IN  [rec EXCEPT ![1] = h]

\* What the run writes for a record: parse, set the goal when the target is
\* the old format, serialize.
BlockFor(rec) ==
    LET b == fromString(SourceType(args), rec).board
    IN  toString(IF TargetType(args) = DataType_OLD
                 THEN [b EXCEPT !.goal = IntOf(args.goal).val] ELSE b,
                 TargetType(args)).text

\* C7: the chip count in the header of every written block is the number of
\* column values >= 0 of the input record, and the block is the same when the
\* derived fields of the input header hold other numbers.
C7_ChipCountFromColumns ==
    \A i \in 1..Len(blocks) :
        /\ WrittenChipCount(i) = CountNonNeg(RecordColumns(records[i]))
        /\ fromString(SourceType(args), WithOtherDerivedFields(records[i])).ok
        /\ BlockFor(WithOtherDerivedFields(records[i])) = blocks[i]

\* A written block whose record mixes values below zero, zero and above, under
\* a header whose chip count is not the count of the columns.
C7_Witness ==
    /\ Len(blocks) >= 1
    /\ Len(records[1]) >= 2
    /\ \E v \in ValuesOf(RecordColumns(records[1])) : v < 0
    /\ 0 \in ValuesOf(RecordColumns(records[1]))
    /\ WrittenChipCount(1) = 2

\* ---------------------------------------------------------------- C8
\* C8: a block written in the old format has the header n,k,goal,maxRow,
\* numChips, where maxRow is the largest value of the board.
C8_MaxRowIsLargestValue ==
    \A i \in 1..Len(blocks) :
        TargetType(args) = DataType_OLD =>
            LET f    == Split(HeaderOf(blocks[i]), ",")
                h    == Split(records[i][1], ",")
                vals == ValuesOf(RecordColumns(records[i]))
            IN  /\ Len(f) = 5
                /\ Len(records[i]) >= 2
                /\ f[1] = IntToStr(IntOf(Split(h[1], "=")[2]).val)
                /\ f[2] = IntToStr(IntOf(Split(h[2], "=")[2]).val)
                /\ f[3] = IntToStr(IntOf(args.goal).val)
                /\ IntOf(f[4]).val \in vals
                /\ \A v \in vals : v <= IntOf(f[4]).val
                /\ f[5] = IntToStr(CountNonNeg(RecordColumns(records[i])))

\* A block in the old format for a board that holds nothing but a negative
\* sentinel: maxRow is that sentinel.
C8_Witness ==
    /\ TargetType(args) = DataType_OLD
    /\ Len(blocks) >= 1
    /\ \A v \in ValuesOf(RecordColumns(records[1])) : v < 0
    /\ IntOf(Split(HeaderOf(blocks[1]), ",")[4]).val = 0 - 1

\* ---------------------------------------------------------------- C9
\* Two boards with the same n, k, number of columns and column multisets.
SameShape(b, c) ==
    /\ b.n = c.n
    /\ b.k = c.k
    /\ Len(b.chips_asc) = Len(c.chips_asc)
    /\ \A j \in 1..Len(b.chips_asc) : SameMultiset(b.chips_asc[j], c.chips_asc[j])

\* The boards read back from a block written with the separator sep.
ReadBack(text, sep) ==
    ReadRecords(FileLines(text \o <<NL>> \o sep \o <<NL>>), sep, <<>>)

RoundTrips(rec, src, other, sep) ==
    LET b1 == fromString(src, rec).board
        s1 == toString(b1, other)
    IN  /\ s1.ok
        /\ Len(ReadBack(s1.text, sep)) = 1
        /\ fromString(other, ReadBack(s1.text, sep)[1]).ok
        /\ LET b2 == fromString(other, ReadBack(s1.text, sep)[1]).board
           IN  /\ SameShape(b1, b2)
               /\ toString(b2, src).ok

SameFormatRoundTrips(rec, sep) ==
    LET b1 == fromString(DataType_OLD, rec).board
        s1 == toString(b1, DataType_OLD)
    IN  /\ s1.ok
        /\ Len(ReadBack(s1.text, sep)) = 1
        /\ fromString(DataType_OLD, ReadBack(s1.text, sep)[1]).ok
        /\ LET b2 == fromString(DataType_OLD, ReadBack(s1.text, sep)[1]).board
           IN  SameShape(b1, b2) /\ b2.goal = b1.goal

\* C9 (as claimed): every record that parses in the source format can be
\* serialized to the other format, read back from that output by the record
\* reader and the parser, and serialized to the source format again, with n,
\* k, the number of columns and the multiset of every column unchanged; and
\* an old-format record serialized to the old format and parsed again keeps
\* n, k, goal and the multisets.
C9_RoundTrip ==
    \A i \in 1..Len(boards) :
        /\ RoundTrips(records[i], SourceType(args), TargetType(args),
                      out_separator(args))
        /\ SourceType(args) = DataType_OLD =>
              SameFormatRoundTrips(records[i], out_separator(args))

\* ---------------------------------------------------------------- C10
\* The tokens of the body lines of a board's text, flags dropped.
BodyTokens(b, datatype) ==
    LET ls == Split(toString(b, datatype).text, NL)
    IN  [c \in 1..(Len(ls) - 1) |->
           LET toks == Split(ls[c + 1], " ")
           IN  [t \in 1..Len(toks) |-> Split(toks[t], ":")[1]]]

\* C10: every board holds as many ascending as descending columns, one per
\* column line of its record; each ascending column is sorted non-decreasing
\* and holds the values of the record's column; each descending column is the
\* reverse of the ascending one; and the tokens of each body line of the
\* old-format text, flags dropped, are the reverse of the tokens of the same
\* line of the new-format text.
C10_AscDescMirror ==
    \A i \in 1..Len(boards) :
        LET b    == boards[i]
            cols == RecordColumns(records[i])
        IN  /\ Len(b.chips_asc) = Len(records[i]) - 1
            /\ Len(b.chips_desc) = Len(b.chips_asc)
            /\ \A c \in 1..Len(b.chips_asc) :
                  /\ \A j \in 1..(Len(b.chips_asc[c]) - 1) :
                        b.chips_asc[c][j] <= b.chips_asc[c][j + 1]
                  /\ SameMultiset(b.chips_asc[c], cols[c])
                  /\ b.chips_desc[c] = Reverse(b.chips_asc[c])
            /\ Len(b.chips_asc) >= 1 =>
                  /\ toString(b, DataType_OLD).ok
                  /\ Len(BodyTokens(b, DataType_OLD)) = Len(b.chips_asc)
                  /\ Len(BodyTokens(b, DataType_NEW)) = Len(b.chips_asc)
                  /\ \A c \in 1..Len(b.chips_asc) :
                        BodyTokens(b, DataType_NEW)[c]
                            = Reverse(BodyTokens(b, DataType_OLD)[c])

\* A board whose goal has been overwritten and that holds a column given in
\* neither order.
C10_Witness ==
    /\ pc = "done"
    /\ args.direction = "new-to-old"
    /\ Len(boards) >= 1
    /\ boards[1].goal = 7
    /\ \E c \in 1..Len(boards[1].chips_asc) :
          /\ RecordColumns(records[1])[c] # boards[1].chips_asc[c]
          /\ RecordColumns(records[1])[c] # boards[1].chips_desc[c]

====
